---------------------------- MODULE Spec2Model ----------------------------
(***************************************************************************)
(* The christmas-tree scene: the App component's state (mode, uploaded     *)
(* photos, selected photo, background music), the Polaroids component's    *)
(* layout (photoData) and per-frame animation, and each PolaroidItem's     *)
(* texture loading.                                                        *)
(*                                                                         *)
(* Numbers are fixed point.  Scalars (yNorm, r, speed, Math.random()       *)
(* samples, sines and cosines) are in thousandths, angles in micro-        *)
(* radians, frame deltas in milliseconds, and scene coordinates in         *)
(* hundredths of a scene unit.  A JavaScript value that may be null is a   *)
(* sequence: <<>> for null, <<v>> for the value v.                         *)
(*                                                                         *)
(* A PolaroidItem's orientation, scale and hover state are written by its  *)
(* callbacks and read by nothing but the renderer; they are not part of    *)
(* the state here.                                                         *)
(***************************************************************************)
EXTENDS Integers, Sequences, FiniteSets

VARIABLES
    mode,               \* App: useState<TreeMode>
    uploadedPhotos,     \* App: useState<string[]>
    selectedPhoto,      \* App: useState<string | null>
    audio,              \* the <audio> element and the two document listeners
    photoData,          \* Polaroids: the memoized PhotoData[]
    items,              \* the mounted PolaroidItem components, by index
    frameOrder,         \* how many PolaroidItem useFrame callbacks run before Polaroids' own
    twoHandsDetected,   \* Polaroids prop
    hasOnClosestPhotoChange, \* whether the onClosestPhotoChange prop is passed
    closestPhotoIndex,  \* Polaroids: useState<number>
    closestCalls,       \* <<>>, or <<arg>>: the argument of the last onClosestPhotoChange call
    frames,             \* frames rendered so far
    uploads,            \* handlePhotosUpload calls so far
    toggles             \* toggleMode calls so far, modulo 2

vars == <<mode, uploadedPhotos, selectedPhoto, audio, photoData, items, frameOrder,
          twoHandsDetected, hasOnClosestPhotoChange, closestPhotoIndex, closestCalls,
          frames, uploads, toggles>>

appVars == <<mode, uploadedPhotos, selectedPhoto>>
sceneVars == <<photoData, items, frameOrder, closestPhotoIndex, closestCalls>>
propVars == <<twoHandsDetected, hasOnClosestPhotoChange>>

---------------------------------------------------------------------------
(* Bounds of the model *)

\* Longest photo list handlePhotosUpload is called with.
MaxPhotos == 2
\* Frames rendered in one behaviour.
MaxFrames == 1
\* handlePhotosUpload calls in one behaviour.
MaxUploads == 1

\* The first two of the six entries of DEFAULT_PHOTOS.
DEFAULT_PHOTOS ==
    << "/photos/z7360734546167_92e3622f1ec1cdc5ced46906d6c7d0c4.jpg",
       "/photos/z7360734556376_a03660e9dd0311a54f35d7e4e105a9e5.jpg" >>

\* The urls an upload hands over: object or data urls, never the empty string.
UploadUrls == { "blob:upload-1" }

Urls == UploadUrls \cup { DEFAULT_PHOTOS[k] : k \in DOMAIN DEFAULT_PHOTOS }

\* Samples of the three Math.random() values one pass of the layout loop draws
\* (distance, heightSpread, speed), in thousandths: near, high and slow; far,
\* low and fast.
RandomDraws == { <<0, 999, 0>>, <<999, 0, 999>> }

\* Frame deltas the render loop supplies (ms): a 60 Hz frame and a one second
\* stall (a slow frame, or the first frame after the tab was in the background).
Deltas == { 16, 1000 }

\* Camera positions: the initial one, and one OrbitControls can reach
\* (distance 20.4, inside [10, 30]; polar angle 78.7 deg, inside [45, 100]).
Cameras == { <<0, 400, 2000>>, <<-1600, 400, -1200>> }

---------------------------------------------------------------------------
(* JavaScript values *)

Null == <<>>
Some(v) == <<v>>

\* Truthiness of a string | null value, as `selectedPhoto && (...)` tests it.
Truthy(v) == v # Null /\ v[1] # ""

TreeMode == { "FORMED", "CHAOS" }

\* Integer division rounding toward zero.
TruncDiv(a, b) == IF a >= 0 THEN a \div b ELSE -((-a) \div b)

SeqsUpTo(S, n) == UNION { [1..k -> S] : k \in 0..n }

---------------------------------------------------------------------------
(* Math.cos and Math.sin *)

\* cos of x milliradians, 0 <= x <= 1571, in thousandths (Taylor series to x^8).
CosSmall(x) ==
    LET x2 == (x * x) \div 1000
        t4 == 1000 - x2 \div 56
        t3 == 1000 - ((x2 * t4) \div 1000) \div 30
        t2 == 1000 - ((x2 * t3) \div 1000) \div 12
    IN  1000 - ((x2 * t2) \div 1000) \div 2

\* cos of a microradians, a >= 0, in thousandths.
Cos(a) ==
    LET m == (a % 6283185) \div 1000
    IN  IF m <= 1571 THEN CosSmall(m)
        ELSE IF m <= 3142 THEN -CosSmall(3142 - m)
        ELSE IF m <= 4712 THEN -CosSmall(m - 3142)
        ELSE CosSmall(6283 - m)

\* sin of a microradians, a >= 0, in thousandths.
Sin(a) ==
    LET m == (a % 6283185) \div 1000
    IN  IF m <= 1571 THEN CosSmall(1571 - m)
        ELSE IF m <= 3142 THEN CosSmall(m - 1571)
        ELSE IF m <= 4712 THEN -CosSmall(4712 - m)
        ELSE -CosSmall(m - 4712)

---------------------------------------------------------------------------
(* Polaroids: the layout computed by the photoData memo *)

height == 9
maxRadius == 5000
GoldenAngle == 2399960
relativeY == 5
relativeZ == 20

\* yNorm with the fraction taken one pass late: (i + 1) / count.
yNormOffByOne(i, count) == 200 + ((((i + 1) * 1000) \div count) * 600) \div 1000

\* yNorm = 0.2 + (i / count) * 0.6, in thousandths.
yNorm(i, count) == 200 + (((i * 1000) \div count) * 600) \div 1000

\* r = maxRadius * (1 - yNorm) + 0.8, in thousandths.
Radius(i, count) == (maxRadius * (1000 - yNorm(i, count))) \div 1000 + 800

\* theta = i * 2.39996, in microradians.
Theta(i) == i * GoldenAngle

\* new THREE.Vector3(r * cos(theta), yNorm * height, r * sin(theta))
TargetPos(i, count) ==
    << TruncDiv(Radius(i, count) * Cos(Theta(i)), 10000),
       (yNorm(i, count) * height) \div 10,
       TruncDiv(Radius(i, count) * Sin(Theta(i)), 10000) >>

\* The chaos position of photo i; d and h are the two Math.random() samples.
ChaosPos(i, count, d, h) ==
    LET angle == ((i * 1000) \div count) * 6283
        distance == 3000 + d * 4
        heightSpread == (h - 500) * 8
        x == TruncDiv(TruncDiv(distance * Cos(angle), 1000) * 1200, 1000)
        y == relativeY * 1000 + heightSpread
        z == relativeZ * 1000 - 4000
                + TruncDiv(TruncDiv(distance * Sin(angle), 1000) * 500, 1000)
    IN  << TruncDiv(x, 10), TruncDiv(y, 10), TruncDiv(z, 10) >>

\* speed: 0.8 + Math.random() * 1.5, in thousandths.
Speed(s) == 800 + (s * 1500) \div 1000

\* A loop body that reads the url of the first photo in every pass.
PhotoEntryFirstUrl(i, photos, draw) ==
    [ id |-> i,
      url |-> photos[1],
      chaosPos |-> ChaosPos(i, Len(photos), draw[1], draw[2]),
      targetPos |-> TargetPos(i, Len(photos)),
      speed |-> Speed(draw[3]) ]

\* One pass of the loop body: the entry pushed for index i (from 0).
PhotoEntry(i, photos, draw) ==
    [ id |-> i,
      url |-> photos[i + 1],
      chaosPos |-> ChaosPos(i, Len(photos), draw[1], draw[2]),
      targetPos |-> TargetPos(i, Len(photos)),
      speed |-> Speed(draw[3]) ]

\* The memo's value for uploadedPhotos = photos; draws[k] holds the three
\* Math.random() samples of pass k.
MakePhotoData(photos, draws) ==
    IF Len(photos) = 0
        THEN << >>
        ELSE [ k \in 1..Len(photos) |-> PhotoEntry(k - 1, photos, draws[k]) ]

Draws(n) == [ 1..n -> RandomDraws ]

---------------------------------------------------------------------------
(* PolaroidItem *)

NoLoads == [ u \in Urls |-> 0 ]

\* A PolaroidItem after its mount: the group at the origin, no texture, no
\* error, and the load its effect started.
MountedItem(url) ==
    [ position |-> <<0, 0, 0>>,
      texture |-> Null,
      error |-> FALSE,
      loads |-> [ NoLoads EXCEPT ![url] = 1 ] ]

\* The effect on [data.url]: a new load when the url changed.
UrlEffect(item, oldUrl, newUrl) ==
    IF oldUrl = newUrl THEN item
    ELSE [ item EXCEPT !.loads[newUrl] = @ + 1 ]

\* loader.load's onLoad callback.
OnTextureLoad(item, u) ==
    [ item EXCEPT !.texture = Some(u), !.error = FALSE, !.loads[u] = @ - 1 ]

\* loader.load's onError callback.
OnTextureError(item, u) ==
    [ item EXCEPT !.error = TRUE, !.loads[u] = @ - 1 ]

\* What the photo area shows.
Material(item) ==
    IF item.texture # Null /\ ~item.error THEN "photo"
    ELSE IF item.error THEN "fallback #550000" ELSE "fallback #cccccc"

Label(item) == IF item.error THEN "Image not found" ELSE "Happy Memories"

\* App.handlePhotoClick: the value setSelectedPhoto is called with.
handlePhotoClick(photoUrl) == Some(photoUrl)

\* App.closePhotoPopup: the value setSelectedPhoto is called with.
closePhotoPopup == Null

\* A handleClick that calls onPhotoClick whatever the error flag.
HandleClickUnguarded(item, url, selected) == handlePhotoClick(url)

\* handleClick: the value of selectedPhoto after a click on the item showing
\* url; onPhotoClick is the App's handlePhotoClick.
HandleClick(item, url, selected) ==
    IF ~item.error THEN handlePhotoClick(url) ELSE selected

\* Vector3.lerp(target, alpha), alpha in thousandths.
Lerp(p, target, alpha) ==
    [ k \in 1..3 |-> p[k] + TruncDiv((target[k] - p[k]) * alpha, 1000) ]

\* step = delta * data.speed, in thousandths (delta in ms).
Step(delta, speed) == (delta * speed) \div 1000

\* The position the item's useFrame callback lerps toward.
FrameTarget(m, data) == IF m = "FORMED" THEN data.targetPos ELSE data.chaosPos

\* The item's position after its useFrame callback.
ItemFrame(item, data, m, delta) ==
    [ item EXCEPT !.position =
        Lerp(item.position, FrameTarget(m, data), Step(delta, data.speed)) ]

DistSq(p, q) ==
    (p[1] - q[1]) * (p[1] - q[1]) + (p[2] - q[2]) * (p[2] - q[2])
        + (p[3] - q[3]) * (p[3] - q[3])

---------------------------------------------------------------------------
(* Polaroids: the useFrame callback *)

\* <group position={[0, -5, 0]}> around the Polaroids group.
GroupOffset == <<0, -500, 0>>

\* child.getWorldPosition(worldPos)
World(p) == [ k \in 1..3 |-> p[k] + GroupOffset[k] ]

\* The world positions the callback reads in a frame of the given delta: the
\* items whose own callback was subscribed before it have already moved.
SeenPositions(delta) ==
    [ k \in 1..Len(items) |->
        World(IF k <= frameOrder
                THEN ItemFrame(items[k], photoData[k], mode, delta).position
                ELSE items[k].position) ]

\* The comparison turned round: it keeps the farthest child.
IsFarther(d, min) == min = << >> \/ d > min[1]

\* `distance < minDistance`; min is <<>> for Infinity. Distances are compared
\* by their squares.
IsCloser(d, min) == min = << >> \/ d < min[1]

\* The forEach over the group's children from child k on; acc is
\* <<minDistance, closestIndex>>.
RECURSIVE ClosestFrom(_, _, _, _)
ClosestFrom(positions, cam, k, acc) ==
    IF k > Len(positions) THEN acc[2]
    ELSE IF k - 1 < Len(photoData) /\ IsCloser(DistSq(positions[k], cam), acc[1])
        THEN ClosestFrom(positions, cam, k + 1, << <<DistSq(positions[k], cam)>>, k - 1 >>)
        ELSE ClosestFrom(positions, cam, k + 1, acc)

\* closestIndex after the loop (from 0).
ClosestIndex(positions, cam) == ClosestFrom(positions, cam, 1, << << >>, 0 >>)

\* One frame of the render loop: every subscribed useFrame callback, in the
\* order of subscription.
RenderFrame(delta, cam) ==
    /\ frames < MaxFrames
    /\ frames' = frames + 1
    /\ items' = [ k \in 1..Len(items) |-> ItemFrame(items[k], photoData[k], mode, delta) ]
    /\ IF twoHandsDetected /\ Len(photoData) > 0
        THEN LET closestIndex == ClosestIndex(SeenPositions(delta), cam)
             IN  /\ closestPhotoIndex' = closestIndex
                 /\ closestCalls' =
                        IF hasOnClosestPhotoChange
                            THEN << Some(uploadedPhotos[closestIndex + 1]) >>
                            ELSE closestCalls
        ELSE /\ closestPhotoIndex' = closestPhotoIndex
             /\ closestCalls' =
                    IF hasOnClosestPhotoChange THEN << Null >> ELSE closestCalls
    /\ UNCHANGED <<appVars, audio, photoData, frameOrder, propVars, uploads, toggles>>

---------------------------------------------------------------------------
(* PolaroidItem: texture callbacks and clicks *)

TextureLoaded(k, u) ==
    /\ k \in 1..Len(items)
    /\ items[k].loads[u] > 0
    /\ items' = [ items EXCEPT ![k] = OnTextureLoad(@, u) ]
    /\ UNCHANGED <<appVars, audio, photoData, frameOrder, propVars,
                   closestPhotoIndex, closestCalls, frames, uploads, toggles>>

TextureFailed(k, u) ==
    /\ k \in 1..Len(items)
    /\ items[k].loads[u] > 0
    /\ items' = [ items EXCEPT ![k] = OnTextureError(@, u) ]
    /\ UNCHANGED <<appVars, audio, photoData, frameOrder, propVars,
                   closestPhotoIndex, closestCalls, frames, uploads, toggles>>

\* A click on polaroid k: handleClick, and through onPhotoClick the App's
\* handlePhotoClick.
PolaroidClick(k) ==
    /\ k \in 1..Len(items)
    /\ selectedPhoto' = HandleClick(items[k], photoData[k].url, selectedPhoto)
    /\ UNCHANGED <<mode, uploadedPhotos, audio, sceneVars, propVars, frames, uploads,
                   toggles>>

---------------------------------------------------------------------------
(* App *)

\* An updater that only ever leaves FORMED.
ToggledModeOneWay(prev) == "CHAOS"

\* setMode's updater.
ToggledMode(prev) == IF prev = "FORMED" THEN "CHAOS" ELSE "FORMED"

toggleMode ==
    /\ mode' = ToggledMode(mode)
    /\ toggles' = (toggles + 1) % 2
    /\ UNCHANGED <<uploadedPhotos, selectedPhoto, audio, sceneVars, propVars,
                   frames, uploads>>

\* The PolaroidItems after a render with the new photo list: an index that
\* stays keeps its component, a new index mounts one, a dropped index unmounts.
RenderedItems(photos) ==
    [ k \in 1..Len(photos) |->
        IF k <= Len(items)
            THEN UrlEffect(items[k], photoData[k].url, photos[k])
            ELSE MountedItem(photos[k]) ]

handlePhotosUpload(photos, draws) ==
    /\ uploads < MaxUploads
    /\ uploads' = uploads + 1
    /\ uploadedPhotos' = photos
    /\ photoData' = MakePhotoData(photos, draws)
    /\ items' = RenderedItems(photos)
    /\ frameOrder' = IF Len(photos) < frameOrder THEN Len(photos) ELSE frameOrder
    /\ UNCHANGED <<mode, selectedPhoto, audio, propVars, closestPhotoIndex,
                   closestCalls, frames, toggles>>

\* {selectedPhoto && (<div ...>)}
ModalShown == Truthy(selectedPhoto)

\* A polaroid frame whose onClick lets the click bubble on to the backdrop.
FrameLetsClickThrough == FALSE

\* Whether the polaroid frame's onClick stops the click from bubbling on.
FrameStopsPropagation == TRUE

\* selectedPhoto after a click in the modal on the given target: the onClick
\* handlers from the target up to the backdrop.
AfterModalClick(target, selected) ==
    LET afterButton == IF target = "closeButton" THEN closePhotoPopup ELSE selected
        throughFrame == target \in { "closeButton", "frame" }
        atBackdrop == target = "backdrop" \/ (throughFrame /\ ~FrameStopsPropagation)
    IN  IF atBackdrop THEN closePhotoPopup ELSE afterButton

ModalClick(target) ==
    /\ ModalShown
    /\ selectedPhoto' = AfterModalClick(target, selectedPhoto)
    /\ UNCHANGED <<mode, uploadedPhotos, audio, sceneVars, propVars, frames, uploads,
                   toggles>>

BackdropClick == ModalClick("backdrop")
CloseButtonClick == ModalClick("closeButton")
FrameClick == ModalClick("frame")

\* handleFirstInteraction; resolved tells whether play()'s promise resolves.
HandleFirstInteraction(a, resolved) ==
    [ a EXCEPT !.playCalls = @ + 1,
               !.playing = @ \/ resolved,
               !.logged = IF resolved THEN @ ELSE @ + 1 ]

\* A click on the document while the { once: true } click listener is on.
DocumentClick(resolved) ==
    /\ audio.clickListener
    /\ audio.playing => resolved
    /\ audio' = [ HandleFirstInteraction(audio, resolved) EXCEPT !.clickListener = FALSE ]
    /\ UNCHANGED <<appVars, sceneVars, propVars, frames, uploads, toggles>>

\* A touchstart on the document while the { once: true } touchstart listener is on.
DocumentTouchStart(resolved) ==
    /\ audio.touchListener
    /\ audio.playing => resolved
    /\ audio' = [ HandleFirstInteraction(audio, resolved) EXCEPT !.touchListener = FALSE ]
    /\ UNCHANGED <<appVars, sceneVars, propVars, frames, uploads, toggles>>

---------------------------------------------------------------------------
(* The program *)

Init ==
    /\ mode = "FORMED"
    /\ uploadedPhotos = DEFAULT_PHOTOS
    /\ selectedPhoto = Null
    /\ audio = [ clickListener |-> TRUE, touchListener |-> TRUE,
                 playCalls |-> 0, playing |-> FALSE, logged |-> 0 ]
    /\ \E draws \in Draws(Len(DEFAULT_PHOTOS)) :
            photoData = MakePhotoData(DEFAULT_PHOTOS, draws)
    /\ items = [ k \in 1..Len(DEFAULT_PHOTOS) |-> MountedItem(DEFAULT_PHOTOS[k]) ]
    /\ frameOrder = Len(DEFAULT_PHOTOS)
    /\ twoHandsDetected = FALSE
    /\ hasOnClosestPhotoChange = FALSE
    /\ closestPhotoIndex = 0
    /\ closestCalls = << >>
    /\ frames = 0
    /\ uploads = 0
    /\ toggles = 0

\* The App's event handlers and each PolaroidItem's callbacks.
Next ==
    \/ toggleMode
    \/ \E photos \in SeqsUpTo(UploadUrls, MaxPhotos) :
         \E draws \in Draws(Len(photos)) : handlePhotosUpload(photos, draws)
    \/ \E k \in 1..Len(items), u \in Urls : TextureLoaded(k, u)
    \/ \E k \in 1..Len(items), u \in Urls : TextureFailed(k, u)
    \/ \E k \in 1..Len(items) : PolaroidClick(k)
    \/ BackdropClick
    \/ CloseButtonClick
    \/ FrameClick
    \/ \E resolved \in BOOLEAN : DocumentClick(resolved)
    \/ \E resolved \in BOOLEAN : DocumentTouchStart(resolved)

Spec == Init /\ [][Next]_vars

---------------------------------------------------------------------------
(* The Polaroids component under its render loop.  Its parent re-renders   *)
(* it with a new mode, a new photo list or a new twoHandsDetected; the     *)
(* render loop calls its useFrame callbacks once per frame.  None of these *)
(* steps reads or writes audio, selectedPhoto, or an item's texture, error *)
(* or loads, and no step of Next reads or writes an item's position, so    *)
(* the two next-state relations are checked apart.                         *)

\* A render of Polaroids with another twoHandsDetected.
SetTwoHands(b) ==
    /\ twoHandsDetected # b
    /\ twoHandsDetected' = b
    /\ UNCHANGED <<appVars, audio, sceneVars, hasOnClosestPhotoChange, frames, uploads,
                   toggles>>

InitScene ==
    /\ mode = "FORMED"
    /\ uploadedPhotos = DEFAULT_PHOTOS
    /\ selectedPhoto = Null
    /\ audio = [ clickListener |-> TRUE, touchListener |-> TRUE,
                 playCalls |-> 0, playing |-> FALSE, logged |-> 0 ]
    /\ \E draws \in Draws(Len(DEFAULT_PHOTOS)) :
            photoData = MakePhotoData(DEFAULT_PHOTOS, draws)
    /\ items = [ k \in 1..Len(DEFAULT_PHOTOS) |-> MountedItem(DEFAULT_PHOTOS[k]) ]
    /\ frameOrder = Len(DEFAULT_PHOTOS)
    /\ twoHandsDetected = FALSE
    /\ hasOnClosestPhotoChange \in BOOLEAN
    /\ closestPhotoIndex = 0
    /\ closestCalls = << >>
    /\ frames = 0
    /\ uploads = 0
    /\ toggles = 0

NextScene ==
    \/ toggleMode
    \/ \E photos \in SeqsUpTo(UploadUrls, MaxPhotos) :
         \E draws \in Draws(Len(photos)) : handlePhotosUpload(photos, draws)
    \/ \E b \in BOOLEAN : SetTwoHands(b)
    \/ \E delta \in Deltas, cam \in Cameras : RenderFrame(delta, cam)

SpecScene == InitScene /\ [][NextScene]_vars

---------------------------------------------------------------------------
(* Properties *)

\* C1: the tree mode is always FORMED or CHAOS; it is FORMED at the start and
\* after every even number of toggleMode calls, CHAOS after every odd number,
\* whatever uploads, photo clicks and modal clicks happen in between.
C1_ModeIsTwoValueToggle ==
    /\ mode \in TreeMode
    /\ mode = (IF toggles = 0 THEN "FORMED" ELSE "CHAOS")

\* C1 is exercised: the mode is CHAOS after a toggle, with a photo selected
\* and a photo list uploaded on the way.
C1_Witness == mode = "CHAOS" /\ selectedPhoto # Null /\ uploads > 0

\* C2: in a frame that leaves the mode and the layout as they are, no
\* polaroid's distance to the mode's target position grows.
C2_DistanceNeverIncreases ==
    [][ (mode' = mode /\ photoData' = photoData /\ Len(items') = Len(items)) =>
            \A k \in 1..Len(items) :
                DistSq(items'[k].position, FrameTarget(mode, photoData[k]))
                    <= DistSq(items[k].position, FrameTarget(mode, photoData[k])) ]_vars

\* C3: the modal is shown exactly when selectedPhoto is not null; no modal at
\* the start; a click on a polaroid without error shows its url in the modal,
\* whatever was selected; a click on the backdrop or the close button sets
\* selectedPhoto to null and hides the modal; a click inside the polaroid
\* frame leaves selectedPhoto and the modal as they are.
C3_ModalFollowsSelectedPhoto ==
    /\ selectedPhoto = Null /\ ~ModalShown
    /\ [](ModalShown <=> selectedPhoto # Null)
    /\ [][ \A k \in 1..Len(items) :
             (PolaroidClick(k) /\ ~items[k].error) =>
                (selectedPhoto' = <<photoData[k].url>> /\ ModalShown') ]_vars
    /\ [][ (BackdropClick \/ CloseButtonClick) =>
                (selectedPhoto' = Null /\ ~ModalShown') ]_vars
    /\ [][ FrameClick => (selectedPhoto' = selectedPhoto /\ ModalShown') ]_vars

\* C3 is exercised: the modal shows the second default photo.
C3_Witness == ModalShown /\ selectedPhoto = <<DEFAULT_PHOTOS[2]>>

\* C4: for every photo count n >= 1 and index i, the formed-layout target of
\* photo i is on the golden-angle spiral: yNorm = 0.2 + (i/n)*0.6 with
\* 0.2 <= yNorm < 0.8, the target's height is yNorm * 9, the radius
\* r = 5.0*(1 - yNorm) + 0.8 is at least 1.8 and strictly decreases with i,
\* and the target lies at distance r from the axis in the direction
\* i * 2.39996 radians (to the precision of the fixed-point arithmetic).
C4_TargetsOnGoldenSpiral ==
    LET n == Len(uploadedPhotos)
        OnSpiral(i) ==
            LET t == photoData[i + 1].targetPos
                yn == yNorm(i, n)
                r == Radius(i, n)
                rc == r \div 10
                h2 == t[1] * t[1] + t[3] * t[3]
                cross == t[1] * Sin(i * 2399960) - t[3] * Cos(i * 2399960)
                dot == t[1] * Cos(i * 2399960) + t[3] * Sin(i * 2399960)
            IN  /\ yn * n <= 200 * n + 600 * i
                /\ yn * n >= 200 * n + 600 * i - 2 * n
                /\ 200 <= yn /\ yn < 800
                /\ 180 <= t[2] /\ t[2] < 720
                /\ t[2] = (yn * 9) \div 10
                /\ r = 5 * (1000 - yn) + 800
                /\ r >= 1800
                /\ (rc - 3) * (rc - 3) <= h2 /\ h2 <= (rc + 3) * (rc + 3)
                /\ dot > 0
                /\ -5000 <= cross /\ cross <= 5000
                /\ Theta(i) = i * 2399960
    IN  /\ \A i \in 0..(n - 1) : OnSpiral(i)
        /\ \A i, j \in 0..(n - 1) :
             i < j => /\ Radius(i, n) > Radius(j, n)
                      /\ photoData[i + 1].targetPos[2] < photoData[j + 1].targetPos[2]

\* C4 is exercised: a layout of at least two photos was computed by an upload.
C4_Witness == uploads > 0 /\ Len(photoData) >= 2

\* C5: a failed load sets the item's error flag and nothing else (but the
\* count of its loads in flight); an item with the error flag shows the
\* fallback material and the label "Image not found"; a click on it leaves
\* selectedPhoto as it is; a click on an item without the flag selects its url.
C5_FailedTextureOnlyFlagsItem ==
    /\ [](\A k \in 1..Len(items) :
            items[k].error =>
                (Material(items[k]) = "fallback #550000"
                    /\ Label(items[k]) = "Image not found"))
    /\ [][ \A k \in 1..Len(items), u \in Urls :
             TextureFailed(k, u) =>
                /\ items'[k].error
                /\ items'[k].texture = items[k].texture
                /\ items'[k].position = items[k].position
                /\ \A j \in 1..Len(items) : j # k => items'[j] = items[j]
                /\ Len(items') = Len(items)
                /\ <<mode, uploadedPhotos, selectedPhoto, audio, photoData>>'
                      = <<mode, uploadedPhotos, selectedPhoto, audio, photoData>> ]_vars
    /\ [][ \A k \in 1..Len(items) :
             PolaroidClick(k) =>
                IF items[k].error
                    THEN selectedPhoto' = selectedPhoto
                    ELSE selectedPhoto' = <<photoData[k].url>> ]_vars

\* C5 is exercised: one polaroid failed to load and shows no texture, and a
\* click selected another polaroid's photo.
C5_Witness ==
    \E k \in 1..Len(items) :
        /\ items[k].error
        /\ items[k].texture = Null
        /\ selectedPhoto # Null
        /\ selectedPhoto # <<photoData[k].url>>

\* C6: no polaroid is rendered when uploadedPhotos is empty; otherwise there
\* is one polaroid and one photoData entry per uploaded photo, in order:
\* entry i has id i and url uploadedPhotos[i].
C6_OnePolaroidPerPhoto ==
    /\ Len(photoData) = Len(uploadedPhotos)
    /\ Len(items) = Len(photoData)
    /\ Len(uploadedPhotos) = 0 => items = << >>
    /\ \A k \in 1..Len(uploadedPhotos) :
         photoData[k].id = k - 1 /\ photoData[k].url = uploadedPhotos[k]

\* C6 is exercised: an upload replaced the default photos by uploaded ones.
C6_Witness ==
    /\ uploads > 0
    /\ Len(items) >= 1
    /\ \A k \in 1..Len(photoData) : photoData[k].url \in UploadUrls

\* Child k (from 0) is nearest to the camera, and the first such child.
IsNearestFirst(k, positions, cam) ==
    /\ k \in 0..(Len(positions) - 1)
    /\ \A j \in 0..(Len(positions) - 1) :
         /\ DistSq(positions[k + 1], cam) <= DistSq(positions[j + 1], cam)
         /\ j < k => DistSq(positions[j + 1], cam) > DistSq(positions[k + 1], cam)

\* C7: in every frame with twoHandsDetected and at least one photo,
\* the index chosen is a valid index of uploadedPhotos, it is the lowest index
\* among the photos whose world position is nearest to the camera, and
\* onClosestPhotoChange (when passed) is called with that photo's url; in a
\* frame without two hands or without photos it is called with null.
C7_ClosestPhotoReported ==
    [][ \A delta \in Deltas, cam \in Cameras :
          RenderFrame(delta, cam) =>
            IF twoHandsDetected /\ Len(uploadedPhotos) > 0
                THEN /\ closestPhotoIndex' \in 0..(Len(uploadedPhotos) - 1)
                     /\ IsNearestFirst(closestPhotoIndex', SeenPositions(delta), cam)
                     /\ hasOnClosestPhotoChange =>
                            closestCalls' = << <<uploadedPhotos[closestPhotoIndex' + 1]>> >>
                ELSE hasOnClosestPhotoChange => closestCalls' = << Null >> ]_vars

\* C7 is exercised: with two hands detected, the second photo was reported
\* as the closest one.
C7_Witness ==
    /\ twoHandsDetected
    /\ Len(uploadedPhotos) >= 2
    /\ closestPhotoIndex = 1
    /\ closestCalls = << <<uploadedPhotos[2]>> >>

\* C8: audio.play() is called at most once, whatever clicks and touches follow.
C8_PlayCalledOnce == audio.playCalls <= 1

===========================================================================
